---- MODULE Spec2Model ----
(***************************************************************************)
(* Model of scrape.py: scrape_ampol_tgp(), the one operation of the        *)
(* program.  One run fetches the pricing page, finds the PDF link,         *)
(* downloads the PDF, reads the two effective dates and the first page's   *)
(* table, rebuilds the column headers, reshapes the table into long        *)
(* records and merges them into ampol_tgp_data.csv.                        *)
(*                                                                         *)
(* Text is a sequence of atoms: an atom is a marker "*", a whitespace      *)
(* character (" " or "\n") or a chunk of other characters.  The empty      *)
(* string is << >>.  A missing value (Python None, pandas NaN) in a text   *)
(* column is NA; a missing float is NaN; a missing date string is NoDate.  *)
(* Dates are integers yyyymmdd and timestamps are integer seconds: both    *)
(* stand for the fixed-width strings the program compares, whose order is  *)
(* the order of the integers.                                              *)
(***************************************************************************)
EXTENDS Integers, Sequences, FiniteSets, TLC

VARIABLES file, before, clock, runs, last, prev

vars == <<file, before, clock, runs, last, prev>>

\* ------------------------------------------------------------------ bounds

MaxRuns == 2

MaxTableRuns == 1

\* ------------------------------------------------------------ missing values

NA == <<"<NA>">>

NaN == -1

NoDate == 0

\* -------------------------------------------------------------------- text

Range(s) == {s[i] : i \in 1..Len(s)}

IsSpace(a) == a \in {" ", "\n"}

NotMarker(a) == a # "*"

RECURSIVE LStrip(_)
LStrip(s) == IF s # << >> /\ IsSpace(Head(s)) THEN LStrip(Tail(s)) ELSE s

RECURSIVE RStrip(_)
RStrip(s) ==
    IF s # << >> /\ IsSpace(s[Len(s)]) THEN RStrip(SubSeq(s, 1, Len(s) - 1)) ELSE s

\* str.strip()
Strip(s) == RStrip(LStrip(s))

\* str(cell): None prints as the text None
PyStr(c) == IF c = NA THEN <<"None">> ELSE c

\* bool(cell): None and the empty string are falsy
Truthy(c) == c # NA /\ c # << >>

\* re.sub(r'\*+', '', s): every marker goes
RemoveMarkers(s) == SelectSeq(s, NotMarker)

RECURSIVE DropTrailingMarkers(_)
DropTrailingMarkers(s) ==
    IF s # << >> /\ s[Len(s)] = "*"
    THEN DropTrailingMarkers(SubSeq(s, 1, Len(s) - 1))
    ELSE s

\* a pattern without the +: only the last marker goes
StripTrailingMarkersOnce(s) ==
    IF s = NA THEN NA
    ELSE IF s # << >> /\ s[Len(s)] = "*" THEN SubSeq(s, 1, Len(s) - 1)
    ELSE s

\* Series.str.replace(r'\*+$', '', regex=True): the run of markers that ends the
\* text goes; $ also matches just before a newline that ends the text, so a
\* run right before a final newline goes too.  A missing value stays missing.
StripTrailingMarkers(s) ==
    IF s = NA THEN NA
    ELSE IF s # << >> /\ s[Len(s)] = "*" THEN DropTrailingMarkers(s)
    ELSE IF s # << >> /\ s[Len(s)] = "\n"
         THEN DropTrailingMarkers(SubSeq(s, 1, Len(s) - 1)) \o <<"\n">>
    ELSE s

\* The order of Python's str comparison on the atoms the model uses.
CodepointOrder ==
    <<"\n", " ", "*", "DIESEL", "E10", "KURNELL", "LYTTON", "NSW", "None",
      "PULP 95", "PULP95", "PULP98", "QLD", "SPULP 98", "ULP", "UNLEADED 91", "_">>

AtomRank(a) == CHOOSE i \in 1..Len(CodepointOrder) : CodepointOrder[i] = a

RECURSIVE TextLess(_, _)
TextLess(s, t) ==
    IF t = << >> THEN FALSE
    ELSE IF s = << >> THEN TRUE
    ELSE IF Head(s) = Head(t) THEN TextLess(Tail(s), Tail(t))
    ELSE AtomRank(Head(s)) < AtomRank(Head(t))

\* ------------------------------------------------- 3a. the effective dates

\* datetime.strptime(label, "%A, %d %B %Y").date().isoformat() on the labels
\* the model uses; any other label raises ValueError.
DateOf ==
    ("Sunday, 31 December 2023" :> 20231231) @@
    ("Monday, 01 January 2024" :> 20240101) @@
    ("Tuesday, 02 January 2024" :> 20240102)

\* re.search(...) found the label (group(1) of None raises AttributeError)
\* and strptime accepts it
DateParses(label) ==
    /\ label # NA
    /\ Len(Strip(label)) = 1
    /\ Strip(label)[1] \in DOMAIN DateOf

ParseDate(label) == DateOf[Strip(label)[1]]

\* ----------------------------------------------- 3b. the fuel header row

RowCells(row) == {Strip(PyStr(row[i])) : i \in {j \in 1..Len(row) : Truthy(row[j])}}

LooksLikeFuelHeader(row) ==
    /\ row # << >>
    /\ <<"UNLEADED 91">> \in RowCells(row)
    /\ <<"DIESEL">> \in RowCells(row)

\* the index of the first row that looks like the fuel header, 0 for the
\* code's -1
FuelHeaderRowIndex(table) ==
    IF \E i \in 1..Len(table) : LooksLikeFuelHeader(table[i])
    THEN CHOOSE i \in 1..Len(table) :
            /\ LooksLikeFuelHeader(table[i])
            /\ \A j \in 1..(i - 1) : ~LooksLikeFuelHeader(table[j])
    ELSE 0

\* ------------------------------------------- 3c. the clean column headers

\* the loop without the carry: a blank cell gets the empty name
RECURSIVE NoCarryFrom(_, _, _)
NoCarryFrom(fuel_header, i, last_fuel) ==
    IF i > Len(fuel_header) THEN << >>
    ELSE LET fuel == fuel_header[i]
             name == IF Truthy(fuel) /\ Strip(fuel) # << >>
                     THEN Strip(RemoveMarkers(fuel))
                     ELSE << >>
         IN  <<name>> \o NoCarryFrom(fuel_header, i + 1, name)

\* the loop of lines 85-88 from cell i on, last_fuel being the label carried
RECURSIVE FuelNamesFrom(_, _, _)
FuelNamesFrom(fuel_header, i, last_fuel) ==
    IF i > Len(fuel_header) THEN << >>
    ELSE LET fuel == fuel_header[i]
             name == IF Truthy(fuel) /\ Strip(fuel) # << >>
                     THEN Strip(RemoveMarkers(fuel))
                     ELSE last_fuel
         IN  <<name>> \o FuelNamesFrom(fuel_header, i + 1, name)

FuelNames(fuel_header) == FuelNamesFrom(fuel_header, 1, << >>)

\* fuel_map.get(name, name)
FuelMap(name) ==
    CASE name = <<"UNLEADED 91">> -> <<"ULP">>
      [] name = <<"PULP 95">> -> <<"PULP95">>
      [] name = <<"SPULP 98">> -> <<"PULP98">>
      [] OTHER -> name

\* f"{fuel_name}_{day_header[i]}"
ColumnName(fuel_name, day) == fuel_name \o <<"_">> \o PyStr(day)

Columns(fuel_names, day_header) ==
    [i \in 1..Len(day_header) |->
        IF i <= 2 THEN day_header[i]
        ELSE ColumnName(FuelMap(fuel_names[i]), day_header[i])]

\* df[name] finds a column of that name (KeyError otherwise)
HasColumn(columns, name) == \E i \in 1..Len(columns) : columns[i] = name

ColumnIndex(columns, name) == CHOOSE i \in 1..Len(columns) : columns[i] = name

\* df[df['State'].notna() & (df['State'] != '')]
RetainedRows(data_rows, columns) ==
    LET s == ColumnIndex(columns, <<"State">>)
        Keep(row) == row[s] # NA /\ row[s] # << >>
    IN  SelectSeq(data_rows, Keep)

\* ------------------------------------------------- 4. the long format

\* str.split('_')
RECURSIVE Split(_)
Split(s) ==
    IF \E i \in 1..Len(s) : s[i] = "_"
    THEN LET i == CHOOSE i \in 1..Len(s) : s[i] = "_" /\ \A j \in 1..(i - 1) : s[j] # "_"
         IN  <<SubSeq(s, 1, i - 1)>> \o Split(SubSeq(s, i + 1, Len(s)))
    ELSE <<s>>

\* the indexes of the value columns of pd.melt: all but State and Location
ValueColumns(columns) ==
    LET Is(i) == columns[i] # <<"State">> /\ columns[i] # <<"Location">>
    IN  SelectSeq([i \in 1..Len(columns) |-> i], Is)

\* pd.to_numeric(cell, errors='coerce') on the cells the model uses
Numerals == ("150.0" :> 1500) @@ ("151.0" :> 1510) @@ ("152.5" :> 1525)

ToNumeric(cell) ==
    IF cell # NA /\ Len(cell) = 1 /\ cell[1] \in DOMAIN Numerals
    THEN Numerals[cell[1]]
    ELSE NaN

\* day.map({'Previous': ..., 'Current': ...}): any other label maps to missing
DateMap(day, previous_date, current_date) ==
    CASE day = <<"Previous">> -> previous_date
      [] day = <<"Current">> -> current_date
      [] OTHER -> NoDate

\* pd.melt and the columns added to long_df by lines 107-110: one record per
\* value column and retained row, column by column
LongDf(rows, columns, previous_date, current_date) ==
    LET vc == ValueColumns(columns)
        n  == Len(rows)
        s  == ColumnIndex(columns, <<"State">>)
        t  == ColumnIndex(columns, <<"Location">>)
    IN  [k \in 1..(Len(vc) * n) |->
            LET c   == vc[((k - 1) \div n) + 1]
                row == rows[((k - 1) % n) + 1]
                fd  == Split(columns[c])
            IN  [state |-> row[s],
                 terminal |-> StripTrailingMarkers(row[t]),
                 fuel |-> fd[1],
                 day |-> fd[2],
                 effective_date |-> DateMap(fd[2], previous_date, current_date),
                 tgp |-> ToNumeric(row[c])]]

\* no row dropped
KeepAll(long_df) == long_df

\* long_df.dropna(subset=['tgp'])
DropNa(long_df) ==
    LET Has(r) == r.tgp # NaN
    IN  SelectSeq(long_df, Has)

\* final_df: the six columns, date_downloaded being this run's time
FinalDf(long_df, now) ==
    [k \in 1..Len(long_df) |->
        [state |-> long_df[k].state,
         terminal |-> long_df[k].terminal,
         effective_date |-> long_df[k].effective_date,
         fuel |-> long_df[k].fuel,
         tgp |-> long_df[k].tgp,
         date_downloaded |-> now]]

\* ------------------------------------------------ 5. merge and save

\* The file holds text.  DataFrame.to_csv writes a missing value as the empty
\* field; pd.read_csv reads the empty field as a missing value, also where an
\* empty string was written.  A missing effective_date is NoDate in the frame
\* and in the file, where it stands for the empty field.
CsvText(v) == IF v = NA THEN << >> ELSE v

CsvValue(t) == IF t = << >> THEN NA ELSE t

ToCsv(df) ==
    [k \in 1..Len(df) |->
        [state |-> CsvText(df[k].state),
         terminal |-> CsvText(df[k].terminal),
         effective_date |-> df[k].effective_date,
         fuel |-> CsvText(df[k].fuel),
         tgp |-> df[k].tgp,
         date_downloaded |-> df[k].date_downloaded]]

ReadCsv(rows) ==
    [k \in 1..Len(rows) |->
        [state |-> CsvValue(rows[k].state),
         terminal |-> CsvValue(rows[k].terminal),
         effective_date |-> rows[k].effective_date,
         fuel |-> CsvValue(rows[k].fuel),
         tgp |-> rows[k].tgp,
         date_downloaded |-> rows[k].date_downloaded]]

\* the subset of drop_duplicates
Key(r) == <<r.state, r.terminal, r.effective_date, r.fuel>>

Keys(df) == {Key(df[k]) : k \in 1..Len(df)}

\* the rows of one key that an ascending sort would put first
Oldest(rows, key) ==
    LET same == {r \in rows : Key(r) = key}
    IN  {r \in same : \A q \in same : r.date_downloaded <= q.date_downloaded}

\* The rows of one key that sort_values('date_downloaded', ascending=False)
\* may put first: those with the greatest date_downloaded.  Among equal
\* date_downloaded the default sort (quicksort) promises no order, so each of
\* them may be the one keep='first' keeps.
Latest(rows, key) ==
    LET same == {r \in rows : Key(r) = key}
    IN  {r \in same : \A q \in same : q.date_downloaded <= r.date_downloaded}

\* sort_values('date_downloaded', ascending=False) then
\* drop_duplicates(subset=key, keep='first'): the sets of rows that may be left
RECURSIVE KeepKeys(_, _)
KeepKeys(rows, keys) ==
    IF keys = {} THEN {{}}
    ELSE LET key == CHOOSE k \in keys : TRUE
         IN  {rest \cup {r} : rest \in KeepKeys(rows, keys \ {key}), r \in Latest(rows, key)}

DropDuplicates(df) == KeepKeys(Range(df), Keys(df))

\* The order of sort_values(by=[effective_date, state, terminal, fuel]):
\* ascending in each column, a missing value after every value.
TextBefore(s, t) == s # NA /\ (t = NA \/ TextLess(s, t))

DateBefore(d, e) == d # NoDate /\ (e = NoDate \/ d < e)

KeyBefore(r, q) ==
    \/ DateBefore(r.effective_date, q.effective_date)
    \/ /\ r.effective_date = q.effective_date
       /\ \/ TextBefore(r.state, q.state)
          \/ /\ r.state = q.state
             /\ \/ TextBefore(r.terminal, q.terminal)
                \/ /\ r.terminal = q.terminal
                   /\ TextBefore(r.fuel, q.fuel)

RECURSIVE SortByKey(_)
SortByKey(rows) ==
    IF rows = {} THEN << >>
    ELSE LET first == CHOOSE r \in rows : \A q \in rows : ~KeyBefore(q, r)
         IN  <<first>> \o SortByKey(rows \ {first})

\* the existing rows forgotten
NewRowsOnly(existing_df, final_df) == final_df

\* pd.concat([existing_df, final_df])
Concat(existing_df, final_df) == existing_df \o final_df

\* ------------------------------------------------------------ one run

\* How far a run on this document gets: the exception that ends it, or "ok".
\* IndexError: no row after the fuel header, a day header of fewer than two
\* cells, or a fuel header shorter than the day header.  ValueError (shape):
\* a data row that is not as wide as the columns.  KeyError: no State or no
\* Location column.  ValueError (split): the split of fuel_day does not give
\* two columns, which is also the case when no row is retained.
DocStatus(doc) ==
    IF ~DateParses(doc.current) \/ ~DateParses(doc.previous) THEN "DateError"
    ELSE IF doc.table = << >> THEN "NoTable"
    ELSE IF FuelHeaderRowIndex(doc.table) = 0 THEN "NoFuelHeader"
    ELSE LET h           == FuelHeaderRowIndex(doc.table)
             fuel_header == doc.table[h]
             day_header  == doc.table[h + 1]
             data_rows   == SubSeq(doc.table, h + 2, Len(doc.table))
             columns     == Columns(FuelNames(fuel_header), day_header)
         IN  IF h + 1 > Len(doc.table) THEN "IndexError"
             ELSE IF Len(day_header) < 2 \/ Len(fuel_header) < Len(day_header)
                  THEN "IndexError"
             ELSE IF \E i \in 1..Len(data_rows) : Len(data_rows[i]) # Len(columns)
                  THEN "ShapeError"
             ELSE IF ~HasColumn(columns, <<"State">>) \/ ~HasColumn(columns, <<"Location">>)
                  THEN "KeyError"
             ELSE IF \/ RetainedRows(data_rows, columns) = << >>
                     \/ ValueColumns(columns) = << >>
                     \/ \E i \in 1..Len(columns) :
                           /\ columns[i] \notin {<<"State">>, <<"Location">>}
                           /\ Len(Split(columns[i])) # 2
                  THEN "SplitError"
             ELSE "ok"

\* How far a run gets in this environment: the two fetches and the link
\* search come first.
RunStatus(env) ==
    IF env.page # "ok" THEN "PageFetchError"
    ELSE IF env.link # "ok" THEN "LinkNotFound"
    ELSE IF env.pdf # "ok" THEN "PdfFetchError"
    ELSE DocStatus(env.doc)

\* the columns, long_df and final_df of a run that gets through
ColumnsOf(doc) ==
    LET h == FuelHeaderRowIndex(doc.table)
    IN  Columns(FuelNames(doc.table[h]), doc.table[h + 1])

LongDfOf(doc) ==
    LET h       == FuelHeaderRowIndex(doc.table)
        columns == ColumnsOf(doc)
        rows    == RetainedRows(SubSeq(doc.table, h + 2, Len(doc.table)), columns)
    IN  LongDf(rows, columns, ParseDate(doc.previous), ParseDate(doc.current))

\* the file: whether it exists, and its rows
Absent == [exists |-> FALSE, rows |-> << >>]

\* the file opened for writing before the run is known to get through
Truncated(f) == [exists |-> TRUE, rows |-> << >>]

\* a run that ends before step 5 leaves the file as it is
Untouched(f) == f

NoRun == [status |-> "none", env |-> << >>, columns |-> << >>, long_df |-> << >>,
          final_df |-> << >>, existing_df |-> << >>, saved |-> << >>, now |-> 0]

Init ==
    /\ file = Absent
    /\ before = Absent
    /\ clock = 1
    /\ runs = 0
    /\ last = NoRun
    /\ prev = NoRun

\* scrape_ampol_tgp() ending in an exception or an early return
RunFails(env, now) ==
    /\ RunStatus(env) # "ok"
    /\ file' = Untouched(file)
    /\ before' = file
    /\ clock' = now
    /\ runs' = runs + 1
    /\ prev' = last
    /\ last' = [NoRun EXCEPT !.status = RunStatus(env), !.env = env, !.now = now]

\* scrape_ampol_tgp() running to the end
RunSaves(env, now) ==
    /\ RunStatus(env) = "ok"
    /\ LET long_df     == LongDfOf(env.doc)
           final_df    == FinalDf(DropNa(long_df), now)
           existing_df == ReadCsv(file.rows)
           combined_df == IF file.exists THEN Concat(existing_df, final_df) ELSE final_df
       IN  \E kept \in DropDuplicates(combined_df) :
              LET saved == SortByKey(kept)
              IN  /\ file' = [exists |-> TRUE, rows |-> ToCsv(saved)]
                  /\ last' = [status |-> "ok", env |-> env,
                              columns |-> ColumnsOf(env.doc), long_df |-> long_df,
                              final_df |-> final_df, existing_df |-> existing_df,
                              saved |-> saved, now |-> now]
    /\ before' = file
    /\ clock' = now
    /\ runs' = runs + 1
    /\ prev' = last

\* ------------------------------------------------- the documents of Spec

State == <<"State">>

Location == <<"Location">>

\* fuel names after the forward fill: '', '', UNLEADED 91, UNLEADED 91, DIESEL
PlainFuelHeader == <<NA, NA, <<"UNLEADED 91">>, NA, <<"DIESEL">>>>

PlainDayHeader == <<State, Location, <<"Previous">>, <<"Current">>, <<"Current">>>>

BlankRow == <<NA, NA, NA, NA, NA>>

Table(fuel_header, day_header, data_rows) ==
    <<BlankRow, fuel_header, day_header>> \o data_rows

Kurnell == <<<<"NSW">>, <<"KURNELL">>, <<"150.0">>, <<"151.0">>, <<"152.5">>>>

\* the same terminal with a footnote marker and other prices
KurnellMarked == <<<<"NSW">>, <<"KURNELL", "*">>, <<"151.0">>, <<"150.0">>, <<"N/A">>>>

Lytton == <<<<"QLD">>, <<"LYTTON">>, <<"150.0">>, NA, <<"151.0">>>>

\* a row whose Location cell is empty
NoLocation == <<<<"NSW">>, << >>, <<"150.0">>, << >>, NA>>

\* a row without a State, which the filter of line 98 drops
NoState == <<NA, <<"LYTTON">>, <<"150.0">>, <<"151.0">>, <<"152.5">>>>

\* the tables' data rows: one row, or Kurnell and another row
RowSeqs ==
    {<<Kurnell>>, <<KurnellMarked>>, <<NoState>>}
        \cup {<<Kurnell, r>> : r \in {KurnellMarked, NoLocation}}
        \cup {<<Lytton, Kurnell>>}

\* (previous, current) labels of two consecutive publications
DateLabels ==
    {<<<<"Sunday, 31 December 2023">>, <<"Monday, 01 January 2024">>>>,
     <<<<"Monday, 01 January 2024">>, <<"Tuesday, 02 January 2024">>>>}

Doc(labels, table) == [previous |-> labels[1], current |-> labels[2], table |-> table]

GoodLabels == <<<<"Sunday, 31 December 2023">>, <<"Monday, 01 January 2024">>>>

\* documents a run cannot use: a date label missing or unparsable, no table,
\* no row with both UNLEADED 91 and DIESEL
BadDocs ==
    {Doc(<<GoodLabels[1], NA>>, Table(PlainFuelHeader, PlainDayHeader, <<Kurnell>>)),
     Doc(<<<<"31/12/2023">>, GoodLabels[2]>>, Table(PlainFuelHeader, PlainDayHeader, <<Kurnell>>)),
     Doc(GoodLabels, << >>),
     Doc(GoodLabels, <<BlankRow, PlainDayHeader, Kurnell>>)}

MergeDocs ==
    {Doc(l, Table(PlainFuelHeader, PlainDayHeader, rows)) : l \in DateLabels, rows \in RowSeqs}

Env(page, link, pdf, doc) == [page |-> page, link |-> link, pdf |-> pdf, doc |-> doc]

AnyDoc == Doc(GoodLabels, Table(PlainFuelHeader, PlainDayHeader, <<Kurnell>>))

\* the page fetch fails; no matching link, or a link without href; the PDF
\* fetch fails
NetworkFailures ==
    {Env("error", "ok", "ok", AnyDoc), Env("ok", "none", "ok", AnyDoc),
     Env("ok", "nohref", "ok", AnyDoc), Env("ok", "ok", "error", AnyDoc)}

Envs == NetworkFailures \cup {Env("ok", "ok", "ok", d) : d \in BadDocs \cup MergeDocs}

\* the clock of pd.Timestamp.utcnow() at second precision: the first run is
\* at second 1, and a later run may fall in the same second as the run before
Times == IF runs = 0 THEN {clock} ELSE {clock, clock + 1}

Fails == runs < MaxRuns /\ \E env \in Envs, now \in Times : RunFails(env, now)

Saves == runs < MaxRuns /\ \E env \in Envs, now \in Times : RunSaves(env, now)

Next == Fails \/ Saves

Spec == Init /\ [][Next]_vars

\* -------------------------------------------- the documents of SpecTable

\* Tables of four price columns whose header cells, period labels, Location
\* cells and price cells vary one part at a time.

Unleaded == <<"UNLEADED 91">>

Diesel == <<"DIESEL">>

FuelHeaders ==
    {<<NA, NA, a, b, c, d>> :
        a \in {Unleaded, <<"E10", "*">>},
        b \in {NA, <<" ">>, <<" ", "PULP 95", "*", " ">>},
        c \in {Diesel, Unleaded, <<"SPULP 98", "*", "*">>},
        d \in {NA, << >>, Diesel, <<"DIESEL", "*">>}}

UsualFuelHeader == <<NA, NA, <<"E10", "*">>, NA, Unleaded, Diesel>>

UsualDayHeader ==
    <<State, Location, <<"Previous">>, <<"Current">>, <<"Previous">>, <<"Current">>>>

DayHeaders ==
    {<<State, Location, <<"Previous">>, x, y, <<"Current">>>> :
        x \in {<<"Current">>, <<"Prior">>, NA},
        y \in {<<"Previous">>, <<"Current", " ">>}}
      \cup {<<Location, State, <<"Previous">>, <<"Current">>, <<"Previous">>, <<"Current">>>>,
            <<State, NA, <<"Previous">>, <<"Current">>, <<"Previous">>, <<"Current">>>>}

LocationCells ==
    {<<"KURNELL">>, <<"KURNELL", "*">>, <<"KURNELL", "*", "*">>, <<"KURNELL", " ", "*">>,
     <<"KURNELL", "*", " ">>, <<"KURNELL", "*", "\n">>, <<"*", "KURNELL">>, <<"*">>, NA}

PriceCells == {<<"150.0">>, <<"N/A">>, << >>, NA}

UsualRow == <<<<"NSW">>, <<"KURNELL">>, <<"150.0">>, <<"151.0">>, <<"152.5">>, <<"150.0">>>>

TableRows ==
    {<<<<"NSW">>, l, <<"150.0">>, <<"151.0">>, <<"152.5">>, <<"150.0">>>> : l \in LocationCells}
      \cup {<<<<"NSW">>, <<"KURNELL">>, p, <<"152.5">>, q, <<"150.0">>>> : p, q \in PriceCells}
      \cup {<<s, <<"KURNELL">>, <<"150.0">>, <<"151.0">>, <<"152.5">>, <<"150.0">>>> :
                s \in {NA, << >>, <<"QLD">>}}

WideTable(fuel_header, day_header, data_rows) ==
    <<<<NA, NA, NA, NA, NA, NA>>, fuel_header, day_header>> \o data_rows

TableDocs ==
    {Doc(GoodLabels, WideTable(h, UsualDayHeader, <<UsualRow>>)) : h \in FuelHeaders}
      \cup {Doc(GoodLabels, WideTable(UsualFuelHeader, d, <<UsualRow>>)) : d \in DayHeaders}
      \cup {Doc(GoodLabels, WideTable(UsualFuelHeader, UsualDayHeader, <<r>>)) : r \in TableRows}
      \cup {Doc(GoodLabels, <<UsualFuelHeader>>),
            Doc(GoodLabels, WideTable(UsualFuelHeader, UsualDayHeader, <<Kurnell>>))}

TableEnvs == NetworkFailures \cup {Env("ok", "ok", "ok", d) : d \in BadDocs \cup TableDocs}

TableFails ==
    runs < MaxTableRuns /\ \E env \in TableEnvs, now \in Times : RunFails(env, now)

TableSaves ==
    runs < MaxTableRuns /\ \E env \in TableEnvs, now \in Times : RunSaves(env, now)

NextTable == TableFails \/ TableSaves

SpecTable == Init /\ [][NextTable]_vars

\* ------------------------------------------------------------ the claims

RunSaved == last.status = "ok"

RunFailed == last.status \notin {"ok", "none"}

\* the keys of the rows of a file, as written
WrittenKeys(f) == {Key(f.rows[k]) : k \in 1..Len(f.rows)}

\* the last run was the first, or fell in a later second than the run before
LaterSecond == prev.status = "none" \/ last.now > prev.now

\* C1: the persisted dataset holds at most one record for each
\* (state, terminal, effective_date, fuel); stated for runs in different
\* seconds, where no two records of a key tie on date_downloaded across runs.
C1_UniqueKeys ==
    LaterSecond =>
      \A i, j \in 1..Len(file.rows) :
        i # j => Key(file.rows[i]) # Key(file.rows[j])

Content(f) ==
    {<<f.rows[k].state, f.rows[k].terminal, f.rows[k].effective_date,
       f.rows[k].fuel, f.rows[k].tgp>> : k \in 1..Len(f.rows)}

SameDocTwice ==
    /\ RunSaved
    /\ prev.status = "ok"
    /\ prev.env.doc = last.env.doc

C4_KeysKept ==
    RunSaved =>
        /\ WrittenKeys(before) \subseteq WrittenKeys(file)
        /\ Cardinality(WrittenKeys(file)) >= Cardinality(WrittenKeys(before))

C4_Witness ==
    /\ RunSaved
    /\ before.exists
    /\ \E k \in WrittenKeys(before) : k \notin Keys(ToCsv(last.final_df))
    /\ Cardinality(WrittenKeys(file)) > Cardinality(WrittenKeys(before))

\* C5: a run that fails before step 5 leaves the file exactly as it was, and
\* does not create it.
C5_FailedRunWritesNothing == RunFailed => file = before

C5_Witness ==
    /\ RunFailed
    /\ prev.status = "ok"
    /\ before.exists
    /\ before.rows # << >>
    /\ file = before

\* the order of the rows as they stand in the file: plain text order, column
\* by column, the empty field before every other text
WrittenBefore(r, q) ==
    \/ r.effective_date < q.effective_date
    \/ /\ r.effective_date = q.effective_date
       /\ \/ TextLess(r.state, q.state)
          \/ /\ r.state = q.state
             /\ \/ TextLess(r.terminal, q.terminal)
                \/ /\ r.terminal = q.terminal
                   /\ TextLess(r.fuel, q.fuel)

\* C8: after a run that saves, the rows of the file are in ascending order of
\* (effective_date, state, terminal, fuel); stated for runs in different
\* seconds.
C8_WrittenInOrder ==
    (RunSaved /\ LaterSecond) =>
        \A i, j \in 1..Len(file.rows) :
            i < j => ~WrittenBefore(file.rows[j], file.rows[i])

\* the parts of the table the last run read
LastTable == last.env.doc.table

LastFuelHeader == LastTable[FuelHeaderRowIndex(LastTable)]

LastDayHeader == LastTable[FuelHeaderRowIndex(LastTable) + 1]

LastDataRows == SubSeq(LastTable, FuelHeaderRowIndex(LastTable) + 2, Len(LastTable))

\* the key under which a candidate of long_df would stand in the file
CandidateKey(r) ==
    <<CsvText(r.state), CsvText(r.terminal), r.effective_date, CsvText(r.fuel)>>

\* C6: every persisted record has a number as tgp.  A candidate whose price
\* cell is no number is dropped before the merge and, unless the key is there
\* from another record, leaves no record; the candidates with a number are
\* all persisted.
C6_PricesAreNumbers ==
    /\ \A k \in 1..Len(file.rows) : file.rows[k].tgp # NaN
    /\ RunSaved =>
          /\ \A r \in Range(last.final_df) : r.tgp # NaN
          /\ Len(last.final_df) = Cardinality({k \in 1..Len(last.long_df) : last.long_df[k].tgp # NaN})
          /\ \A r \in Range(last.long_df) :
                IF r.tgp # NaN
                THEN CandidateKey(r) \in WrittenKeys(file)
                ELSE \/ CandidateKey(r) \notin WrittenKeys(file)
                     \/ CandidateKey(r) \in WrittenKeys(before)
                     \/ \E q \in Range(last.long_df) :
                           q.tgp # NaN /\ CandidateKey(q) = CandidateKey(r)

C6_Witness ==
    /\ RunSaved
    /\ \E r, q \in Range(last.long_df) :
          /\ r.state = q.state /\ r.terminal = q.terminal
          /\ r.tgp = NaN /\ q.tgp # NaN
          /\ CandidateKey(r) \notin WrittenKeys(file)
          /\ CandidateKey(q) \in WrittenKeys(file)
    /\ \E row \in Range(LastDataRows) : \E i \in 3..Len(row) : row[i] = <<"N/A">>

EndsWithMarker(t) == t # << >> /\ t[Len(t)] = "*"

Markers(n) == [i \in 1..n |-> "*"]

\* C7: no terminal in the file ends with a marker; the run of markers that
\* ends a Location cell is gone from the terminal of its records.
C7_NoTrailingMarker ==
    /\ \A k \in 1..Len(file.rows) : ~EndsWithMarker(file.rows[k].terminal)
    /\ RunSaved =>
          \A row \in Range(RetainedRows(LastDataRows, last.columns)) :
              LET cell == row[ColumnIndex(last.columns, Location)]
              IN  (cell # NA /\ EndsWithMarker(cell)) =>
                      \E r \in Range(last.long_df) :
                          /\ r.state = row[ColumnIndex(last.columns, State)]
                          /\ ~EndsWithMarker(r.terminal)
                          /\ Len(r.terminal) < Len(cell)
                          /\ cell = r.terminal \o Markers(Len(cell) - Len(r.terminal))

C7_Witness ==
    /\ RunSaved
    /\ \E row \in Range(LastDataRows) : row[2] = <<"KURNELL", "*", "*">>
    /\ \E k \in 1..Len(file.rows) : file.rows[k].terminal = <<"KURNELL">>

\* C9: every retained row gives one candidate per price column, and every
\* candidate's effective_date is the current date when its column's period is
\* Current and the previous date otherwise: none is missing.
C9_EveryCandidateDated ==
    RunSaved =>
        /\ Len(last.long_df) =
              Len(RetainedRows(LastDataRows, last.columns)) * Len(ValueColumns(last.columns))
        /\ \A r \in Range(last.long_df) :
              /\ r.effective_date # NoDate
              /\ r.effective_date =
                    IF r.day = <<"Current">>
                    THEN ParseDate(last.env.doc.current)
                    ELSE ParseDate(last.env.doc.previous)

NonBlank(cell) == cell # NA /\ \E i \in 1..Len(cell) : ~IsSpace(cell[i])

\* the nearest non-blank cell of the header at or to the left of column i
NearestLabel(header, i) ==
    header[CHOOSE j \in 1..i :
              NonBlank(header[j]) /\ \A k \in (j + 1)..i : ~NonBlank(header[k])]

Canonical(label) ==
    LET name == Strip(SelectSeq(label, NotMarker))
    IN  IF name = <<"UNLEADED 91">> THEN <<"ULP">>
        ELSE IF name = <<"PULP 95">> THEN <<"PULP95">>
        ELSE IF name = <<"SPULP 98">> THEN <<"PULP98">>
        ELSE name

\* C10: the fuel of each price column is the nearest non-blank label at or to
\* the left of the column in the fuel header row, markers removed and mapped
\* to the fuel code; its period is the cell of the same column in the row
\* below the fuel header row.
C10_ForwardFill ==
    RunSaved =>
        /\ Len(last.columns) = Len(LastDayHeader)
        /\ \A i \in 3..Len(last.columns) :
              (\E j \in 1..i : NonBlank(LastFuelHeader[j])) =>
                  /\ Split(last.columns[i])[1] = Canonical(NearestLabel(LastFuelHeader, i))
                  /\ "*" \notin Range(Split(last.columns[i])[1])
                  /\ Split(last.columns[i])[2] = PyStr(LastDayHeader[i])
                  /\ \E r \in Range(last.long_df) :
                        /\ r.fuel = Canonical(NearestLabel(LastFuelHeader, i))
                        /\ r.day = PyStr(LastDayHeader[i])

C10_Witness ==
    /\ RunSaved
    /\ \E i \in 4..Len(last.columns) :
          /\ ~NonBlank(LastFuelHeader[i])
          /\ LastFuelHeader[i - 1] = <<"E10", "*">>
          /\ Split(last.columns[i])[1] = <<"E10">>
    /\ \E i \in 3..Len(last.columns) :
          /\ LastFuelHeader[i] = <<"UNLEADED 91">>
          /\ Split(last.columns[i])[1] = <<"ULP">>

====
